---- MODULE Spec2Model ----
(***************************************************************************)
(* Ingest / index / query pipeline of the electrical-grid RAG chatbot.     *)
(*                                                                         *)
(* The working directory is modelled file by file: the per-batch           *)
(* checkpoint files batch_<n>_embeddings.npy and batch_<n>_metadata.json,  *)
(* and the final pair free_electrical_grid_index.faiss /                   *)
(* free_electrical_grid_metadata.json.  One ingest process runs at a time  *)
(* (process_streaming, process_geojson_file or create_real_sample_dataset);*)
(* it can be killed between any two file operations and started again.     *)
(* The query application's start-up reads the final pair concurrently.     *)
(*                                                                         *)
(* Five parts of the program have specifications of their own over the     *)
(* same variables: the line parser stream_geojson_features (SpecParser),   *)
(* the retrieval functions of app.py and RAG_CHATBOT.py (SpecQuery),       *)
(* combine_batches called again after a finished run (SpecMerge), a run of *)
(* process_streaming on an input of ten batches (SpecLong), and the three  *)
(* versions of feature_to_rag_content (SpecCanon).                         *)
(*                                                                         *)
(* Representation of lists.  A Python list of Documents (or of their       *)
(* texts, or of their embedding vectors) is always built from consecutive  *)
(* records of an input file, so it is kept run-length encoded: a sequence  *)
(* of blocks [file, lo, hi] standing for records lo..hi of input file      *)
(* `file`, adjacent blocks merged.  DocAt / TextAt / VecAt give the        *)
(* element at a list position, ListLen the length.  This keeps the         *)
(* program's own numbers (batches of 1000 records, count // 1000 + 1).     *)
(***************************************************************************)
EXTENDS Integers, Sequences, FiniteSets, TLC

(***************************************************************************)
(* Bounds of the model.                                                    *)
(***************************************************************************)
\* input files have LenStep, 2*LenStep, .. MaxLenSteps*LenStep records
LenStep == 500
MaxLenSteps == 3
\* batch sizes tried: BatchStep, .. MaxBatchSteps*BatchStep
BatchStep == 500
MaxBatchSteps == 2
\* ingest runs started, interruptions and provider failures per behaviour
MaxRuns == 2
MaxInterrupts == 1
MaxFails == 2
\* number of distinct content strings among the records
NumContents == 7

Files == 0..MaxLenSteps
\* sample_test.geojson, the input of create_real_sample_dataset
SampleLen == 2
SampleFile == MaxLenSteps + 1
\* an input of LongBatches batches of DefaultBatch records
DefaultBatch == 1000
LongBatches == 10
LongFile == MaxLenSteps + 2
InputLen(f) ==
    IF f = SampleFile THEN SampleLen
    ELSE IF f = LongFile THEN LongBatches * DefaultBatch
    ELSE f * LenStep
BatchSizes == {k * BatchStep : k \in 1..MaxBatchSteps}

Min(a, b) == IF a < b THEN a ELSE b
Max(a, b) == IF a > b THEN a ELSE b

(***************************************************************************)
(* Documents, texts and vectors.                                           *)
(***************************************************************************)
\* the Document canonicalized from record rec of input file f
Doc(f, rec) == [file |-> f, rec |-> rec]

\* rag_content['content'] of a Document; contents are not unique
Content(d) == (3 * d.file + d.rec) % NumContents

\* the provider's vector for one text (order-preserving, one vector per text)
Embed(text) == <<text \div 2, text % 2>>

Block(f, lo, hi) == [file |-> f, lo |-> lo, hi |-> hi]

RECURSIVE ListLen(_)
ListLen(L) == IF L = <<>> THEN 0
              ELSE (Head(L).hi - Head(L).lo + 1) + ListLen(Tail(L))

RECURSIVE DocAt(_, _)
\* element i (1-based) of the list L, 1 <= i <= ListLen(L)
DocAt(L, i) ==
    LET b == Head(L)
        n == b.hi - b.lo + 1
    IN  IF i <= n THEN Doc(b.file, b.lo + i - 1) ELSE DocAt(Tail(L), i - n)

TextAt(L, i) == Content(DocAt(L, i))
VecAt(L, i) == Embed(TextAt(L, i))

\* list.append / list.extend of the records lo..hi of file f
AppendBlock(L, b) ==
    IF b.hi < b.lo THEN L
    ELSE IF L # <<>> /\ L[Len(L)].file = b.file /\ L[Len(L)].hi + 1 = b.lo
         THEN [L EXCEPT ![Len(L)].hi = b.hi]
         ELSE Append(L, b)

RECURSIVE Extend(_, _)
Extend(L, M) == IF M = <<>> THEN L ELSE Extend(AppendBlock(L, Head(M)), Tail(M))

(***************************************************************************)
(* Files.                                                                  *)
(***************************************************************************)
\* a file being written (opened and truncated, not yet complete)
PartialFile == [ok |-> FALSE, build |-> 0, data |-> <<>>]
WholeFile(b, L) == [ok |-> TRUE, build |-> b, data |-> L]
NoFinal == [exists |-> FALSE, ok |-> FALSE, build |-> 0, data |-> <<>>]
PartialFinal == [exists |-> TRUE, ok |-> FALSE, build |-> 0, data |-> <<>>]
WholeFinal(b, L) == [exists |-> TRUE, ok |-> TRUE, build |-> b, data |-> L]

Put(dir, n, content) == [o \in DOMAIN dir \cup {n} |-> IF o = n THEN content ELSE dir[o]]
Remove(dir, n) == [o \in DOMAIN dir \ {n} |-> dir[o]]

\* f"batch_{batch_num}_..." : the decimal digits of n, then '_'
RECURSIVE Digits(_)
Digits(n) == IF n < 10 THEN <<48 + n>> ELSE Append(Digits(n \div 10), 48 + (n % 10))
NameKey(n) == Append(Digits(n), 95)

RECURSIVE LexLess(_, _)
\* Python's string order on the file names
LexLess(s, t) ==
    IF s = <<>> THEN t # <<>>
    ELSE IF t = <<>> THEN FALSE
    ELSE IF Head(s) # Head(t) THEN Head(s) < Head(t)
    ELSE LexLess(Tail(s), Tail(t))

RECURSIVE SortedNames(_)
\* sorted(glob.glob("batch_*_...")) over the ordinals S whose file exists
SortedNames(S) ==
    IF S = {} THEN <<>>
    ELSE LET m == CHOOSE x \in S : \A y \in S \ {x} : LexLess(NameKey(x), NameKey(y))
         IN  <<m>> \o SortedNames(S \ {m})

(***************************************************************************)
(* State.                                                                  *)
(***************************************************************************)
VARIABLES
    embFile,            \* batch_<n>_embeddings.npy : ordinal -> file content
    metaFile,           \* batch_<n>_metadata.json  : ordinal -> file content
    indexFile,          \* free_electrical_grid_index.faiss
    finalMetaFile,      \* free_electrical_grid_metadata.json
    pc,                 \* position of the ingest process
    runNo,              \* number of ingest runs started (the build's identity)
    file,               \* filepath of the current run
    batch_size,
    all_texts,          \* process_streaming locals
    all_metadata,
    processed_count,
    final_batch,        \* TRUE once the loop has ended (lines 176-179)
    batch_embeddings,
    batch_num,          \* save_batch_results local
    embedding_files,    \* combine_batches locals
    metadata_files,
    cb_i,
    cb_embeddings,
    cb_metadata,
    interrupts,         \* interruptions so far
    fails,              \* provider failures so far
    written,            \* history: ordinals written by this run, in order
    failedBatches,      \* history: batches of this run whose embed call failed
    encode_calls,       \* history: provider calls of this run
    run_fails,          \* history: provider failures of this run
    mode,               \* which ingest function the process runs
    sampleIndexFile,    \* electrical_grid_index.faiss
    sampleMetaFile,     \* electrical_grid_metadata.json
    appPc,              \* position of the query application's start-up
    app_index,          \* app.py's module-level index
    app_texts,          \* app.py's module-level texts
    parsePc,            \* position of stream_geojson_features
    doc,                \* the opened file: a sequence of stripped lines
    src_records,        \* history: the records the file was written from
    line_num,           \* lines read so far
    in_features,
    feature_count,
    current_feature,
    brace_count,
    emitted,            \* the features yielded so far, in order
    decode_errors,      \* history: candidates json.loads rejected
    reported,           \* what the generator has told its caller at its end
    queryPc,            \* position of a query
    q_vectors,          \* the vectors of the index the query runs on
    q_dim,              \* index.d
    q_texts,            \* the metadata list the query runs on
    q_query,            \* the query text
    q_k,
    q_provider,         \* history: the provider that embedded the query
    q_hits,             \* history: what index.search returned
    q_result,           \* what the retrieval function returned
    canonPc,            \* position of the conversion of one Record
    c_record,           \* the feature handed to feature_to_rag_content
    c_stream,           \* what free_streaming_processor's function gave
    c_memory,           \* what free_embedding_processor's function gave
    c_sample            \* what create_real_sample's function gave

disk == <<embFile, metaFile, indexFile, finalMetaFile>>
sampleDisk == <<sampleIndexFile, sampleMetaFile>>
app == <<appPc, app_index, app_texts>>
streamLocals == <<mode, file, batch_size, all_texts, all_metadata, processed_count,
                  final_batch, batch_embeddings, batch_num>>
combineLocals == <<embedding_files, metadata_files, cb_i, cb_embeddings, cb_metadata>>
history == <<written, failedBatches, encode_calls, run_fails>>
budget == <<interrupts, fails>>
parser == <<parsePc, doc, src_records, line_num, in_features, feature_count,
            current_feature, brace_count, emitted, decode_errors, reported>>
query == <<queryPc, q_vectors, q_dim, q_texts, q_query, q_k, q_provider, q_hits, q_result>>
canon == <<canonPc, c_record, c_stream, c_memory, c_sample>>
vars == <<disk, sampleDisk, app, pc, runNo, streamLocals, combineLocals, history, budget,
          parser, query, canon>>

Init ==
    /\ embFile = <<>>
    /\ metaFile = <<>>
    /\ indexFile = NoFinal
    /\ finalMetaFile = NoFinal
    /\ pc = "idle"
    /\ runNo = 0
    /\ file = 0
    /\ batch_size = 0
    /\ all_texts = <<>>
    /\ all_metadata = <<>>
    /\ processed_count = 0
    /\ final_batch = FALSE
    /\ batch_embeddings = <<>>
    /\ batch_num = 0
    /\ embedding_files = <<>>
    /\ metadata_files = <<>>
    /\ cb_i = 0
    /\ cb_embeddings = <<>>
    /\ cb_metadata = <<>>
    /\ interrupts = 0
    /\ fails = 0
    /\ written = <<>>
    /\ failedBatches = {}
    /\ encode_calls = 0
    /\ run_fails = 0
    /\ mode = "none"
    /\ sampleIndexFile = NoFinal
    /\ sampleMetaFile = NoFinal
    /\ appPc = "off"
    /\ app_index = NoFinal
    /\ app_texts = NoFinal
    /\ parsePc = "off"
    /\ doc = <<>>
    /\ src_records = <<>>
    /\ line_num = 0
    /\ in_features = FALSE
    /\ feature_count = 0
    /\ current_feature = <<>>
    /\ brace_count = 0
    /\ emitted = <<>>
    /\ decode_errors = 0
    /\ reported = <<>>
    /\ queryPc = "off"
    /\ q_vectors = <<>>
    /\ q_dim = 0
    /\ q_texts = <<>>
    /\ q_query = 0
    /\ q_k = 0
    /\ q_provider = "none"
    /\ q_hits = <<>>
    /\ q_result = <<>>
    /\ canonPc = "off"
    /\ c_record = <<>>
    /\ c_stream = <<>>
    /\ c_memory = <<>>
    /\ c_sample = <<>>

\* the process's locals after it has ended (normally, by an exception or killed)
ResetLocals ==
    /\ mode' = "none"
    /\ file' = 0
    /\ batch_size' = 0
    /\ all_texts' = <<>>
    /\ all_metadata' = <<>>
    /\ processed_count' = 0
    /\ final_batch' = FALSE
    /\ batch_embeddings' = <<>>
    /\ batch_num' = 0
    /\ embedding_files' = <<>>
    /\ metadata_files' = <<>>
    /\ cb_i' = 0
    /\ cb_embeddings' = <<>>
    /\ cb_metadata' = <<>>


(***************************************************************************)
(* process_streaming (free_streaming_processor.py:132-193).                *)
(***************************************************************************)
StartStreaming(f, bs) ==
    /\ pc \in {"idle", "done"}
    /\ runNo < MaxRuns
    /\ runNo' = runNo + 1
    /\ mode' = "stream"
    /\ file' = f
    /\ batch_size' = bs
    /\ all_texts' = <<>>
    /\ all_metadata' = <<>>
    /\ processed_count' = 0
    /\ final_batch' = FALSE
    /\ batch_embeddings' = <<>>
    /\ batch_num' = 0
    /\ written' = <<>>
    /\ failedBatches' = {}
    /\ encode_calls' = 0
    /\ run_fails' = 0
    /\ pc' = "stream"
    /\ UNCHANGED <<canon, parser, query, sampleDisk, app, disk, combineLocals, budget>>

\* Lines 150-158: the loop body for the next features, up to and including the
\* first one after which len(all_texts) >= batch_size (or the last feature).
\* The iterations in between only append to the two lists.
StreamFeatures ==
    /\ pc = "stream"
    /\ processed_count < InputLen(file)
    /\ LET take == Min(Max(batch_size - ListLen(all_texts), 1),
                       InputLen(file) - processed_count)
           blk == Block(file, processed_count + 1, processed_count + take)
       IN  /\ all_texts' = AppendBlock(all_texts, blk)
           /\ all_metadata' = AppendBlock(all_metadata, blk)
           /\ processed_count' = processed_count + take
           /\ pc' = IF ListLen(AppendBlock(all_texts, blk)) >= batch_size
                    THEN "encode" ELSE "stream"
    /\ UNCHANGED <<canon, parser, query, sampleDisk, app, disk, runNo, mode, file, batch_size, final_batch, batch_embeddings,
                   batch_num, combineLocals, history, budget>>

\* Lines 175-176: the stream is exhausted.
StreamEnd ==
    /\ pc = "stream"
    /\ processed_count = InputLen(file)
    /\ final_batch' = TRUE
    /\ pc' = IF all_texts # <<>> THEN "encode" ELSE "glob"
    /\ UNCHANGED <<canon, parser, query, sampleDisk, app, disk, runNo, mode, file, batch_size, all_texts, all_metadata,
                   processed_count, batch_embeddings, batch_num, combineLocals,
                   history, budget>>

\* self.model.encode(all_texts, ...): one vector per text, in order.  A block of
\* vectors is named by the block of texts it was computed from (see VecAt).
Encode(texts) == [i \in 1..Len(texts) |-> Block(texts[i].file, texts[i].lo, texts[i].hi)]

\* Lines 162 and 178: the provider call returns.
EncodeOk ==
    /\ pc = "encode"
    /\ batch_embeddings' = Encode(all_texts)
    /\ encode_calls' = encode_calls + 1
    /\ pc' = "save"
    /\ UNCHANGED <<canon, parser, query, sampleDisk, app, disk, runNo, mode, file, batch_size, all_texts, all_metadata,
                   processed_count, final_batch, batch_num, combineLocals,
                   written, failedBatches, run_fails, budget>>

\* Line 162 raises: caught at line 171, the loop continues with the next
\* feature; the two lists are not cleared.
EncodeFailInLoop ==
    /\ pc = "encode"
    /\ ~final_batch
    /\ fails < MaxFails
    /\ fails' = fails + 1
    /\ run_fails' = run_fails + 1
    /\ encode_calls' = encode_calls + 1
    /\ failedBatches' = failedBatches \cup {all_metadata}
    /\ pc' = "stream"
    /\ UNCHANGED <<canon, parser, query, sampleDisk, app, disk, runNo, streamLocals, combineLocals, written, interrupts>>

ResetHistory ==
    /\ written' = <<>>
    /\ failedBatches' = {}
    /\ encode_calls' = 0
    /\ run_fails' = 0

\* Line 178 raises: nothing catches it, process_streaming ends by the exception.
EncodeFailFinal ==
    /\ pc = "encode"
    /\ final_batch
    /\ fails < MaxFails
    /\ fails' = fails + 1
    /\ pc' = "idle"
    /\ ResetLocals
    /\ ResetHistory
    /\ UNCHANGED <<canon, parser, query, sampleDisk, app, disk, runNo, interrupts>>

(***************************************************************************)
(* save_batch_results (free_streaming_processor.py:195-209).               *)
(***************************************************************************)
BatchNum(count) == count \div 1000 + 1

\* Lines 198-202: np.save opens (creates or truncates) the embeddings file.
SaveOpenEmbeddings ==
    /\ pc = "save"
    /\ batch_num' = BatchNum(processed_count)
    /\ embFile' = Put(embFile, BatchNum(processed_count), PartialFile)
    /\ written' = Append(written, BatchNum(processed_count))
    /\ pc' = "save_emb"
    /\ UNCHANGED <<canon, parser, query, sampleDisk, app, metaFile, indexFile, finalMetaFile, runNo, mode, file, batch_size,
                   all_texts, all_metadata, processed_count, final_batch,
                   batch_embeddings, combineLocals, failedBatches, encode_calls,
                   run_fails, budget>>

\* Line 202: np.save has written the array.
SaveEmbeddings ==
    /\ pc = "save_emb"
    /\ embFile' = Put(embFile, batch_num, WholeFile(runNo, batch_embeddings))
    /\ pc' = "save_open_meta"
    /\ UNCHANGED <<canon, parser, query, sampleDisk, app, metaFile, indexFile, finalMetaFile, runNo, streamLocals,
                   combineLocals, history, budget>>

\* Line 206: open(metadata_file, 'w').
SaveOpenMetadata ==
    /\ pc = "save_open_meta"
    /\ metaFile' = Put(metaFile, batch_num, PartialFile)
    /\ pc' = "save_meta"
    /\ UNCHANGED <<canon, parser, query, sampleDisk, app, embFile, indexFile, finalMetaFile, runNo, streamLocals,
                   combineLocals, history, budget>>

\* Line 207: json.dump(metadata, f); then back in process_streaming the batch
\* is cleared (lines 168-169), or after the final batch combine_batches starts.
SaveMetadata ==
    /\ pc = "save_meta"
    /\ metaFile' = Put(metaFile, batch_num, WholeFile(runNo, all_metadata))
    /\ IF final_batch
       THEN /\ pc' = "glob"
            /\ UNCHANGED <<canon, parser, query, sampleDisk, app, all_texts, all_metadata>>
       ELSE /\ pc' = "stream"
            /\ all_texts' = <<>>
            /\ all_metadata' = <<>>
    /\ UNCHANGED <<canon, parser, query, sampleDisk, app, embFile, indexFile, finalMetaFile, runNo, mode, file, batch_size,
                   processed_count, final_batch, batch_embeddings, batch_num,
                   combineLocals, history, budget>>


(***************************************************************************)
(* combine_batches (free_streaming_processor.py:211-267).                  *)
(***************************************************************************)
\* Lines 217-224.
CombineGlob ==
    /\ pc = "glob"
    /\ embedding_files' = SortedNames(DOMAIN embFile)
    /\ metadata_files' = SortedNames(DOMAIN metaFile)
    /\ cb_i' = 1
    /\ cb_embeddings' = <<>>
    /\ cb_metadata' = <<>>
    /\ pc' = "cb_load"
    /\ UNCHANGED <<canon, parser, query, sampleDisk, app, disk, runNo, streamLocals, history, budget>>

\* zip(embedding_files, metadata_files) stops with the shorter list
ZipLen == Min(Len(embedding_files), Len(metadata_files))

\* Lines 226-236: np.load and json.load of the i-th pair of the zip.
CombineLoad ==
    /\ pc = "cb_load"
    /\ cb_i <= ZipLen
    /\ embFile[embedding_files[cb_i]].ok
    /\ metaFile[metadata_files[cb_i]].ok
    /\ cb_embeddings' = Append(cb_embeddings, embFile[embedding_files[cb_i]].data)
    /\ cb_metadata' = Extend(cb_metadata, metaFile[metadata_files[cb_i]].data)
    /\ pc' = "cb_rm_emb"
    /\ UNCHANGED <<canon, parser, query, sampleDisk, app, disk, runNo, streamLocals, embedding_files, metadata_files,
                   cb_i, history, budget>>

\* np.load or json.load raises on a truncated file: combine_batches, and with
\* it process_streaming, ends by the exception.
CombineLoadRaises ==
    /\ pc = "cb_load"
    /\ cb_i <= ZipLen
    /\ ~(embFile[embedding_files[cb_i]].ok /\ metaFile[metadata_files[cb_i]].ok)
    /\ pc' = "idle"
    /\ ResetLocals
    /\ ResetHistory
    /\ UNCHANGED <<canon, parser, query, sampleDisk, app, disk, runNo, budget>>

\* Line 239: os.remove(emb_file).
CombineRemoveEmbeddings ==
    /\ pc = "cb_rm_emb"
    /\ embFile' = Remove(embFile, embedding_files[cb_i])
    /\ pc' = "cb_rm_meta"
    /\ UNCHANGED <<canon, parser, query, sampleDisk, app, metaFile, indexFile, finalMetaFile, runNo, streamLocals,
                   combineLocals, history, budget>>

\* Line 240: os.remove(meta_file); the loop goes on to the next pair.
CombineRemoveMetadata ==
    /\ pc = "cb_rm_meta"
    /\ metaFile' = Remove(metaFile, metadata_files[cb_i])
    /\ cb_i' = cb_i + 1
    /\ pc' = "cb_load"
    /\ UNCHANGED <<canon, parser, query, sampleDisk, app, embFile, indexFile, finalMetaFile, runNo, streamLocals,
                   embedding_files, metadata_files, cb_embeddings, cb_metadata,
                   history, budget>>

RECURSIVE VStack(_)
\* np.vstack(all_embeddings): the arrays one after the other
VStack(arrays) == IF arrays = <<>> THEN <<>>
                  ELSE Extend(Head(arrays), VStack(Tail(arrays)))

\* Lines 243-248 after the loop: np.vstack and the index built in memory.
CombineStack ==
    /\ pc = "cb_load"
    /\ cb_i > ZipLen
    /\ cb_embeddings # <<>>
    /\ pc' = "cb_write_index"
    /\ UNCHANGED <<canon, parser, query, sampleDisk, app, disk, runNo, streamLocals, combineLocals, history, budget>>

\* np.vstack([]) raises ValueError when no pair was loaded.
CombineStackRaises ==
    /\ pc = "cb_load"
    /\ cb_i > ZipLen
    /\ cb_embeddings = <<>>
    /\ pc' = "idle"
    /\ ResetLocals
    /\ ResetHistory
    /\ UNCHANGED <<canon, parser, query, sampleDisk, app, disk, runNo, budget>>

\* Line 254: faiss.write_index opens (creates or truncates) the index file.
WriteIndexOpen ==
    /\ pc = "cb_write_index"
    /\ indexFile' = PartialFinal
    /\ pc' = "cb_index"
    /\ UNCHANGED <<canon, parser, query, sampleDisk, app, embFile, metaFile, finalMetaFile, runNo, streamLocals,
                   combineLocals, history, budget>>

\* Line 254: the index is written.
WriteIndex ==
    /\ pc = "cb_index"
    /\ indexFile' = WholeFinal(runNo, VStack(cb_embeddings))
    /\ pc' = "cb_open_meta"
    /\ UNCHANGED <<canon, parser, query, sampleDisk, app, embFile, metaFile, finalMetaFile, runNo, streamLocals,
                   combineLocals, history, budget>>

\* Line 256: open(final_metadata_file, 'w').
WriteMetadataOpen ==
    /\ pc = "cb_open_meta"
    /\ finalMetaFile' = PartialFinal
    /\ pc' = "cb_meta"
    /\ UNCHANGED <<canon, parser, query, sampleDisk, app, embFile, metaFile, indexFile, runNo, streamLocals,
                   combineLocals, history, budget>>

\* Lines 257-267 and 185-193: json.dump, the sizes are printed and
\* process_streaming returns.  file, batch_size and the history stay readable.
WriteMetadata ==
    /\ pc = "cb_meta"
    /\ finalMetaFile' = WholeFinal(runNo, cb_metadata)
    /\ pc' = "done"
    /\ all_texts' = <<>>
    /\ all_metadata' = <<>>
    /\ batch_embeddings' = <<>>
    /\ batch_num' = 0
    /\ embedding_files' = <<>>
    /\ metadata_files' = <<>>
    /\ cb_i' = 0
    /\ cb_embeddings' = <<>>
    /\ cb_metadata' = <<>>
    /\ UNCHANGED <<canon, parser, query, sampleDisk, app, embFile, metaFile, indexFile, runNo, mode, file, batch_size,
                   processed_count, final_batch, history, budget>>

(***************************************************************************)
(* process_geojson_file (free_embedding_processor.py:95-192): the whole    *)
(* file is loaded, converted and embedded in one call.                     *)
(***************************************************************************)
\* Lines 105-133.
StartInMemory(f) ==
    /\ pc \in {"idle", "done"}
    /\ runNo < MaxRuns
    /\ runNo' = runNo + 1
    /\ mode' = "memory"
    /\ file' = f
    /\ batch_size' = 0
    /\ all_texts' = AppendBlock(<<>>, Block(f, 1, InputLen(f)))
    /\ all_metadata' = AppendBlock(<<>>, Block(f, 1, InputLen(f)))
    /\ processed_count' = InputLen(f)
    /\ final_batch' = FALSE
    /\ batch_embeddings' = <<>>
    /\ batch_num' = 0
    /\ ResetHistory
    /\ pc' = "pgf_encode"
    /\ UNCHANGED <<canon, parser, query, sampleDisk, app, disk, combineLocals, budget>>

\* Lines 140-157: the embeddings of all texts; the index is built in memory.
InMemoryEncodeOk ==
    /\ pc = "pgf_encode"
    /\ all_texts # <<>>
    /\ batch_embeddings' = Encode(all_texts)
    /\ encode_calls' = encode_calls + 1
    /\ pc' = "pgf_write_index"
    /\ UNCHANGED <<canon, parser, query, sampleDisk, app, disk, runNo, mode, file, batch_size, all_texts,
                   all_metadata, processed_count, final_batch, batch_num,
                   combineLocals, written, failedBatches, run_fails, budget>>

\* Line 140 raises, or embeddings.shape[1] at line 156 does (no feature, so the
\* array has one dimension only): the function ends by the exception.
InMemoryEncodeRaises ==
    /\ pc = "pgf_encode"
    /\ \/ /\ all_texts = <<>>
          /\ UNCHANGED fails
       \/ /\ all_texts # <<>>
          /\ fails < MaxFails
          /\ fails' = fails + 1
    /\ pc' = "idle"
    /\ ResetLocals
    /\ ResetHistory
    /\ UNCHANGED <<canon, parser, query, sampleDisk, app, disk, runNo, interrupts>>

\* Line 163: faiss.write_index opens the index file.
InMemoryWriteIndexOpen ==
    /\ pc = "pgf_write_index"
    /\ indexFile' = PartialFinal
    /\ pc' = "pgf_index"
    /\ UNCHANGED <<canon, parser, query, sampleDisk, app, embFile, metaFile, finalMetaFile, runNo,
                   streamLocals, combineLocals, history, budget>>

\* Line 163: the index is written.
InMemoryWriteIndex ==
    /\ pc = "pgf_index"
    /\ indexFile' = WholeFinal(runNo, batch_embeddings)
    /\ pc' = "pgf_open_meta"
    /\ UNCHANGED <<canon, parser, query, sampleDisk, app, embFile, metaFile, finalMetaFile, runNo,
                   streamLocals, combineLocals, history, budget>>

\* Line 165: open(output_metadata, 'w').
InMemoryWriteMetadataOpen ==
    /\ pc = "pgf_open_meta"
    /\ finalMetaFile' = PartialFinal
    /\ pc' = "pgf_meta"
    /\ UNCHANGED <<canon, parser, query, sampleDisk, app, embFile, metaFile, indexFile, runNo,
                   streamLocals, combineLocals, history, budget>>

\* Lines 166-192: json.dump, the index is read back and the function returns.
InMemoryWriteMetadata ==
    /\ pc = "pgf_meta"
    /\ finalMetaFile' = WholeFinal(runNo, all_metadata)
    /\ pc' = "done"
    /\ all_texts' = <<>>
    /\ all_metadata' = <<>>
    /\ batch_embeddings' = <<>>
    /\ UNCHANGED <<canon, parser, query, sampleDisk, app, embFile, metaFile, indexFile, runNo, mode, file,
                   batch_size, processed_count, final_batch, batch_num,
                   combineLocals, history, budget>>

(***************************************************************************)
(* create_real_sample_dataset (create_real_sample.py:13-97): one provider  *)
(* call per feature of sample_test.geojson.                                *)
(***************************************************************************)
\* Lines 24-31.
StartSample ==
    /\ pc \in {"idle", "done"}
    /\ runNo < MaxRuns
    /\ runNo' = runNo + 1
    /\ mode' = "sample"
    /\ file' = SampleFile
    /\ batch_size' = 0
    /\ all_texts' = <<>>
    /\ all_metadata' = <<>>
    /\ processed_count' = 0
    /\ final_batch' = FALSE
    /\ batch_embeddings' = <<>>
    /\ batch_num' = 0
    /\ embedding_files' = <<>>
    /\ metadata_files' = <<>>
    /\ cb_i' = 0
    /\ cb_embeddings' = <<>>
    /\ cb_metadata' = <<>>
    /\ ResetHistory
    /\ pc' = "sample_embed"
    /\ UNCHANGED <<canon, parser, query, sampleDisk, app, disk, budget>>

\* Lines 33-50: the feature's embedding is appended with its Document.
SampleEmbedOk ==
    /\ pc = "sample_embed"
    /\ processed_count < InputLen(file)
    /\ LET blk == Block(file, processed_count + 1, processed_count + 1)
       IN  /\ cb_embeddings' = Append(cb_embeddings, Encode(<<blk>>))
           /\ cb_metadata' = AppendBlock(cb_metadata, blk)
    /\ processed_count' = processed_count + 1
    /\ encode_calls' = encode_calls + 1
    /\ UNCHANGED <<canon, parser, query, sampleDisk, app, disk, pc, runNo, mode, file, batch_size, all_texts,
                   all_metadata, final_batch, batch_embeddings, batch_num,
                   embedding_files, metadata_files, cb_i, written, failedBatches,
                   run_fails, budget>>

\* Lines 52-53: the call raises, nothing is appended for this feature.
SampleEmbedFail ==
    /\ pc = "sample_embed"
    /\ processed_count < InputLen(file)
    /\ fails < MaxFails
    /\ fails' = fails + 1
    /\ run_fails' = run_fails + 1
    /\ encode_calls' = encode_calls + 1
    /\ failedBatches' = failedBatches \cup
           {<<Block(file, processed_count + 1, processed_count + 1)>>}
    /\ processed_count' = processed_count + 1
    /\ UNCHANGED <<canon, parser, query, sampleDisk, app, disk, pc, runNo, mode, file, batch_size, all_texts,
                   all_metadata, final_batch, batch_embeddings, batch_num,
                   combineLocals, written, interrupts>>

\* Lines 55-64 with at least one embedding: the index is built in memory.
SampleStack ==
    /\ pc = "sample_embed"
    /\ processed_count = InputLen(file)
    /\ cb_embeddings # <<>>
    /\ pc' = "sample_write_index"
    /\ UNCHANGED <<canon, parser, query, sampleDisk, app, disk, runNo, streamLocals, combineLocals,
                   history, budget>>

\* Lines 55-57: no embedding at all, the function returns False.
SampleNothing ==
    /\ pc = "sample_embed"
    /\ processed_count = InputLen(file)
    /\ cb_embeddings = <<>>
    /\ pc' = "idle"
    /\ ResetLocals
    /\ ResetHistory
    /\ UNCHANGED <<canon, parser, query, sampleDisk, app, disk, runNo, budget>>

\* Line 70: faiss.write_index opens the index file.
SampleWriteIndexOpen ==
    /\ pc = "sample_write_index"
    /\ sampleIndexFile' = PartialFinal
    /\ pc' = "sample_index"
    /\ UNCHANGED <<canon, parser, query, sampleMetaFile, app, disk, runNo, streamLocals, combineLocals,
                   history, budget>>

\* Line 70: the index is written.
SampleWriteIndex ==
    /\ pc = "sample_index"
    /\ sampleIndexFile' = WholeFinal(runNo, VStack(cb_embeddings))
    /\ pc' = "sample_open_meta"
    /\ UNCHANGED <<canon, parser, query, sampleMetaFile, app, disk, runNo, streamLocals, combineLocals,
                   history, budget>>

\* Line 72: open(metadata_path, 'w').
SampleWriteMetadataOpen ==
    /\ pc = "sample_open_meta"
    /\ sampleMetaFile' = PartialFinal
    /\ pc' = "sample_meta"
    /\ UNCHANGED <<canon, parser, query, sampleIndexFile, app, disk, runNo, streamLocals, combineLocals,
                   history, budget>>

\* Lines 73-97: json.dump, both files are read back and the function returns.
SampleWriteMetadata ==
    /\ pc = "sample_meta"
    /\ sampleMetaFile' = WholeFinal(runNo, cb_metadata)
    /\ pc' = "done"
    /\ cb_embeddings' = <<>>
    /\ cb_metadata' = <<>>
    /\ UNCHANGED <<canon, parser, query, sampleIndexFile, app, disk, runNo, streamLocals, embedding_files,
                   metadata_files, cb_i, history, budget>>

(***************************************************************************)
(* Start-up of the query application (app.py:50-86), a separate process    *)
(* that may start while an ingest run is writing.                          *)
(***************************************************************************)
\* Line 52: both local files exist; otherwise the pair is fetched from blob
\* storage (lines 58-78), whose content lies outside this model.
AppStart ==
    /\ appPc = "off"
    /\ appPc' = IF indexFile.exists /\ finalMetaFile.exists
                THEN "read_index" ELSE "remote"
    /\ UNCHANGED <<canon, parser, query, app_index, app_texts, sampleDisk, disk, pc, runNo, streamLocals,
                   combineLocals, history, budget>>

\* Line 54: faiss.read_index; a truncated file raises (lines 82-86).
AppReadIndex ==
    /\ appPc = "read_index"
    /\ IF indexFile.ok
       THEN /\ app_index' = indexFile
            /\ appPc' = "read_meta"
       ELSE /\ app_index' = NoFinal
            /\ appPc' = "unavailable"
    /\ UNCHANGED <<canon, parser, query, app_texts, sampleDisk, disk, pc, runNo, streamLocals,
                   combineLocals, history, budget>>

\* Lines 55-56 and 80: json.load; a truncated file raises (lines 82-86, which
\* set index = None and texts = []).
AppReadMetadata ==
    /\ appPc = "read_meta"
    /\ IF finalMetaFile.ok
       THEN /\ app_texts' = finalMetaFile
            /\ app_index' = app_index
            /\ appPc' = "ready"
       ELSE /\ app_texts' = NoFinal
            /\ app_index' = NoFinal
            /\ appPc' = "unavailable"
    /\ UNCHANGED <<canon, parser, query, sampleDisk, disk, pc, runNo, streamLocals, combineLocals,
                   history, budget>>

(***************************************************************************)
(* The process is killed (Ctrl-C, power loss) between two file operations. *)
(***************************************************************************)
Interrupt ==
    /\ pc \notin {"idle", "done"}
    /\ interrupts < MaxInterrupts
    /\ interrupts' = interrupts + 1
    /\ pc' = "idle"
    /\ ResetLocals
    /\ ResetHistory
    /\ UNCHANGED <<canon, parser, query, sampleDisk, app, disk, runNo, fails>>

Next ==
    \/ \E f \in Files, bs \in BatchSizes : StartStreaming(f, bs)
    \/ StreamFeatures
    \/ StreamEnd
    \/ EncodeOk
    \/ EncodeFailInLoop
    \/ EncodeFailFinal
    \/ SaveOpenEmbeddings
    \/ SaveEmbeddings
    \/ SaveOpenMetadata
    \/ SaveMetadata
    \/ CombineGlob
    \/ CombineLoad
    \/ CombineLoadRaises
    \/ CombineRemoveEmbeddings
    \/ CombineRemoveMetadata
    \/ CombineStack
    \/ CombineStackRaises
    \/ WriteIndexOpen
    \/ WriteIndex
    \/ WriteMetadataOpen
    \/ WriteMetadata
    \/ \E f \in Files : StartInMemory(f)
    \/ InMemoryEncodeOk
    \/ InMemoryEncodeRaises
    \/ InMemoryWriteIndexOpen
    \/ InMemoryWriteIndex
    \/ InMemoryWriteMetadataOpen
    \/ InMemoryWriteMetadata
    \/ StartSample
    \/ SampleEmbedOk
    \/ SampleEmbedFail
    \/ SampleStack
    \/ SampleNothing
    \/ SampleWriteIndexOpen
    \/ SampleWriteIndex
    \/ SampleWriteMetadataOpen
    \/ SampleWriteMetadata
    \/ AppStart
    \/ AppReadIndex
    \/ AppReadMetadata
    \/ Interrupt

Spec == Init /\ [][Next]_vars

(***************************************************************************)
(* combine_batches called once more on the working directory a finished    *)
(* process_streaming has left (free_streaming_processor.py:211-267).       *)
(***************************************************************************)
CombineAgain ==
    /\ pc = "done"
    /\ mode = "stream"
    /\ mode' = "combine"
    /\ pc' = "glob"
    /\ UNCHANGED <<canon, parser, query, sampleDisk, app, disk, runNo, file, batch_size, all_texts,
                   all_metadata, processed_count, final_batch, batch_embeddings, batch_num,
                   combineLocals, history, budget>>

NextMerge ==
    \/ \E f \in Files, bs \in BatchSizes : StartStreaming(f, bs)
    \/ StreamFeatures
    \/ StreamEnd
    \/ EncodeOk
    \/ SaveOpenEmbeddings
    \/ SaveEmbeddings
    \/ SaveOpenMetadata
    \/ SaveMetadata
    \/ CombineGlob
    \/ CombineLoad
    \/ CombineRemoveEmbeddings
    \/ CombineRemoveMetadata
    \/ CombineStack
    \/ CombineStackRaises
    \/ WriteIndexOpen
    \/ WriteIndex
    \/ WriteMetadataOpen
    \/ WriteMetadata
    \/ CombineAgain

SpecMerge == Init /\ [][NextMerge]_vars

(***************************************************************************)
(* process_streaming with its default batch size on an input of            *)
(* LongBatches batches, nothing failing and nothing interrupted            *)
(* (free_streaming_processor.py:132-267).                                  *)
(***************************************************************************)
NextLong ==
    \/ StartStreaming(LongFile, DefaultBatch)
    \/ StreamFeatures
    \/ StreamEnd
    \/ EncodeOk
    \/ SaveOpenEmbeddings
    \/ SaveEmbeddings
    \/ SaveOpenMetadata
    \/ SaveMetadata
    \/ CombineGlob
    \/ CombineLoad
    \/ CombineRemoveEmbeddings
    \/ CombineRemoveMetadata
    \/ CombineStack
    \/ WriteIndexOpen
    \/ WriteIndex
    \/ WriteMetadataOpen
    \/ WriteMetadata

SpecLong == Init /\ [][NextLong]_vars

(***************************************************************************)
(* stream_geojson_features (free_streaming_processor.py:73-130).           *)
(*                                                                         *)
(* A file is a sequence of lines and a line, once stripped, a sequence of  *)
(* JSON tokens: "{" "}" "[" "]" ",", a key with its colon ("k", and "F"    *)
(* for the key "features"), a scalar value ("1", "2", ...) and "x" for     *)
(* text that is no JSON token.  " " is the blank the parser puts between   *)
(* two lines of a candidate.  "s{" is a string value with an opening brace *)
(* in its text and "sF" the string value "features".                       *)
(***************************************************************************)
MaxRecords == 3

Keys == {"k", "F"}
Scalars == {"1", "2", "3", "4", "s{", "sF"}
ValueTok(i) == <<"1", "2", "3", "4">>[i]

\* The texts a record of the features array can have; i tells records apart.
ValidRecord(i) == <<"{", "k", ValueTok(i), "}">>
NestedRecord(i) == <<"{", "k", ValueTok(i), ",", "k", "{", "k", "[", ValueTok(i), "]", "}", "}">>
NoValueRecord(i) == <<"{", "k", "}">>
UnclosedRecord(i) == <<"{", "k", ValueTok(i)>>
GarbageRecord(i) == <<"x", "k", ValueTok(i), "}">>
BracketRecord(i) == <<"]", "x">>
BraceTextRecord(i) == <<"{", "k", "s{", ",", "k", ValueTok(i), "}">>
FeaturesTextRecord(i) == <<"{", "k", "sF", ",", "k", ValueTok(i), "}">>
RecordKinds ==
    {"valid", "nested", "no_value", "unclosed", "garbage", "bracket", "brace_text",
     "features_text"}
RecordText(kind, i) ==
    CASE kind = "valid" -> ValidRecord(i)
      [] kind = "nested" -> NestedRecord(i)
      [] kind = "no_value" -> NoValueRecord(i)
      [] kind = "unclosed" -> UnclosedRecord(i)
      [] kind = "garbage" -> GarbageRecord(i)
      [] kind = "bracket" -> BracketRecord(i)
      [] kind = "brace_text" -> BraceTextRecord(i)
      [] kind = "features_text" -> FeaturesTextRecord(i)

\* Layout "lines": one record per line, as ogr2ogr writes a FeatureCollection.
RECURSIVE RecordLines(_, _)
RecordLines(recs, i) ==
    IF i > Len(recs) THEN <<>>
    ELSE <<recs[i] \o (IF i < Len(recs) THEN <<",">> ELSE <<>>)>> \o RecordLines(recs, i + 1)
Header == <<<<"{">>, <<"k", "1", ",">>, <<"F", "[">>>>
LinesLayout(recs) == Header \o RecordLines(recs, 1) \o <<<<"]">>, <<"}">>>>

\* Layout "truncated": the same file cut off after its last record.
TruncatedLayout(recs) == Header \o RecordLines(recs, 1)

\* Layout "joined": a record's first token, its body and its last token on
\* lines of their own, the last token sharing its line with the comma and the
\* first token of the next record ("}, {").
Body(rec) == SubSeq(rec, 2, Len(rec) - 1)
RECURSIVE JoinedLines(_, _)
JoinedLines(recs, i) ==
    IF i > Len(recs) THEN <<>>
    ELSE <<Body(recs[i])>>
         \o (IF i < Len(recs)
             THEN <<<<recs[i][Len(recs[i])], ",", recs[i + 1][1]>>>>
             ELSE <<<<recs[i][Len(recs[i])]>>>>)
         \o JoinedLines(recs, i + 1)
JoinedLayout(recs) ==
    <<<<"{">>, <<"F">>, <<"[">>>>
    \o (IF recs = <<>> THEN <<>> ELSE <<<<recs[1][1]>>>> \o JoinedLines(recs, 1))
    \o <<<<"]">>, <<"}">>>>

\* the tokens of the whole document
RECURSIVE CommaJoin(_)
CommaJoin(recs) ==
    IF recs = <<>> THEN <<>>
    ELSE IF Len(recs) = 1 THEN recs[1]
    ELSE recs[1] \o <<",">> \o CommaJoin(Tail(recs))
Footer == <<<<"]">>, <<"}">>>>
DocTokens(recs) == <<"{", "k", "1", ",", "F", "[">> \o CommaJoin(recs) \o <<"]", "}">>

\* Layout "pretty": the document as json.dump(indent=...) writes it, a new
\* line after every "{", "[" and "," and before every "}" and "]".
RECURSIVE PrettySplit(_, _)
PrettySplit(toks, cur) ==
    IF toks = <<>> THEN (IF cur = <<>> THEN <<>> ELSE <<cur>>)
    ELSE IF Head(toks) \in {"}", "]"}
         THEN (IF cur = <<>> THEN <<>> ELSE <<cur>>) \o PrettySplit(Tail(toks), <<Head(toks)>>)
    ELSE IF Head(toks) \in {"{", "[", ","}
         THEN <<Append(cur, Head(toks))>> \o PrettySplit(Tail(toks), <<>>)
    ELSE PrettySplit(Tail(toks), Append(cur, Head(toks)))
PrettyLayout(recs) == PrettySplit(DocTokens(recs), <<>>)

\* Layout "oneline": the document as json.dump writes it without indent.
OneLineLayout(recs) == <<DocTokens(recs)>>

\* Layout "sameline": all the records on one line.
SameLineLayout(recs) ==
    Header \o (IF recs = <<>> THEN <<>> ELSE <<CommaJoin(recs)>>) \o Footer

\* Layout "keyline": the first record follows the "features" key on its line.
KeyLineLayout(recs) ==
    IF recs = <<>> THEN LinesLayout(recs)
    ELSE <<<<"{">>, <<"k", "1", ",">>,
           <<"F", "[">> \o recs[1] \o (IF Len(recs) > 1 THEN <<",">> ELSE <<>>)>>
         \o RecordLines(Tail(recs), 1) \o Footer

\* Layout "nested": one record after the other, an object nested in a record
\* on a line of its own.  d is the number of objects open around the token.
RECURSIVE NestedSplit(_, _, _)
NestedSplit(toks, cur, d) ==
    IF toks = <<>> THEN (IF cur = <<>> THEN <<>> ELSE <<cur>>)
    ELSE IF Head(toks) = "{" /\ d = 1
         THEN <<cur>> \o NestedSplit(Tail(toks), <<"{">>, 2)
    ELSE IF Head(toks) = "{" THEN NestedSplit(Tail(toks), Append(cur, "{"), d + 1)
    ELSE IF Head(toks) = "}" /\ d = 2
         THEN <<Append(cur, "}")>> \o NestedSplit(Tail(toks), <<>>, 1)
    ELSE IF Head(toks) = "}" THEN NestedSplit(Tail(toks), Append(cur, "}"), d - 1)
    ELSE NestedSplit(Tail(toks), Append(cur, Head(toks)), d)
RECURSIVE NestedLines(_, _)
NestedLines(recs, i) ==
    IF i > Len(recs) THEN <<>>
    ELSE NestedSplit(recs[i] \o (IF i < Len(recs) THEN <<",">> ELSE <<>>), <<>>, 0)
         \o NestedLines(recs, i + 1)
NestedLayout(recs) == Header \o NestedLines(recs, 1) \o Footer

Layouts ==
    {"lines", "joined", "truncated", "pretty", "oneline", "sameline", "keyline", "nested"}
Layout(recs, style) ==
    CASE style = "lines" -> LinesLayout(recs)
      [] style = "joined" -> JoinedLayout(recs)
      [] style = "truncated" -> TruncatedLayout(recs)
      [] style = "pretty" -> PrettyLayout(recs)
      [] style = "oneline" -> OneLineLayout(recs)
      [] style = "sameline" -> SameLineLayout(recs)
      [] style = "keyline" -> KeyLineLayout(recs)
      [] style = "nested" -> NestedLayout(recs)

\* str.startswith and str.count on a stripped line
StartsWith(line, tok) == line # <<>> /\ line[1] = tok
RECURSIVE Count(_, _)
Count(line, tok) ==
    IF line = <<>> THEN 0
    ELSE (IF Head(line) = tok THEN 1 ELSE 0) + Count(Tail(line), tok)
\* line.count('{') - line.count('}'): the characters, those of a string too
BraceDiff(line) == Count(line, "{") + Count(line, "s{") - Count(line, "}")
\* '"features"' in line: the key or the string value
FeaturesIn(line) == Count(line, "F") + Count(line, "sF") > 0

\* Line 114: current_feature.rstrip(',').strip()
RECURSIVE RStrip(_, _)
RStrip(text, toks) ==
    IF text # <<>> /\ text[Len(text)] \in toks
    THEN RStrip(SubSeq(text, 1, Len(text) - 1), toks)
    ELSE text
FeatureStr(text) == RStrip(RStrip(text, {","}), {" "})

\* Line 117: json.loads accepts exactly one JSON value; blanks between tokens
\* do not count.  ValueEnd is the position after the value that starts at
\* position i, 0 when there is none.
NoBlanks(text) == SelectSeq(text, LAMBDA t : t # " ")
RECURSIVE ValueEnd(_, _), MembersEnd(_, _), ElementsEnd(_, _)
ValueEnd(t, i) ==
    IF i > Len(t) THEN 0
    ELSE IF t[i] \in Scalars THEN i + 1
    ELSE IF t[i] = "{"
         THEN IF i + 1 <= Len(t) /\ t[i + 1] = "}" THEN i + 2 ELSE MembersEnd(t, i + 1)
    ELSE IF t[i] = "["
         THEN IF i + 1 <= Len(t) /\ t[i + 1] = "]" THEN i + 2 ELSE ElementsEnd(t, i + 1)
    ELSE 0
MembersEnd(t, i) ==
    IF i > Len(t) \/ t[i] \notin Keys THEN 0
    ELSE LET j == ValueEnd(t, i + 1)
         IN  IF j = 0 \/ j > Len(t) THEN 0
             ELSE IF t[j] = "}" THEN j + 1
             ELSE IF t[j] = "," THEN MembersEnd(t, j + 1)
             ELSE 0
ElementsEnd(t, i) ==
    LET j == ValueEnd(t, i)
    IN  IF j = 0 \/ j > Len(t) THEN 0
        ELSE IF t[j] = "]" THEN j + 1
        ELSE IF t[j] = "," THEN ElementsEnd(t, j + 1)
        ELSE 0
JsonLoadsOk(text) == ValueEnd(NoBlanks(text), 1) = Len(NoBlanks(text)) + 1
\* the value json.loads returns: the tokens, whatever blanks lay between them
JsonLoads(text) == NoBlanks(text)

\* Lines 78-82: the file is opened and the locals are initialised.
OpenFile(recs, style) ==
    /\ parsePc = "off"
    /\ parsePc' = "lines"
    /\ doc' = Layout(recs, style)
    /\ src_records' = recs
    /\ line_num' = 0
    /\ in_features' = FALSE
    /\ feature_count' = 0
    /\ current_feature' = <<>>
    /\ brace_count' = 0
    /\ emitted' = <<>>
    /\ decode_errors' = 0
    /\ reported' = <<>>
    /\ UNCHANGED <<canon, query, sampleDisk, app, disk, pc, runNo, streamLocals, combineLocals,
                   history, budget>>

\* the line the loop of line 84 reads next
AtLine == parsePc = "lines" /\ line_num < Len(doc)
Line == doc[line_num + 1]
NextLine ==
    /\ line_num' = line_num + 1
    /\ UNCHANGED <<parsePc, doc, src_records, reported>>
    /\ UNCHANGED <<canon, query, sampleDisk, app, disk, pc, runNo, streamLocals, combineLocals,
                   history, budget>>

\* Lines 88-90: '"features"' in line
FeaturesKeyLine ==
    /\ AtLine
    /\ FeaturesIn(Line)
    /\ in_features' = TRUE
    /\ NextLine
    /\ UNCHANGED <<feature_count, current_feature, brace_count, emitted, decode_errors>>

\* Lines 92-93: not yet in the features array
BeforeFeaturesLine ==
    /\ AtLine
    /\ ~FeaturesIn(Line)
    /\ ~in_features
    /\ NextLine
    /\ UNCHANGED <<in_features, feature_count, current_feature, brace_count, emitted,
                   decode_errors>>

\* Lines 96-97: line == '['
OpenBracketLine ==
    /\ AtLine
    /\ ~FeaturesIn(Line)
    /\ in_features
    /\ Line = <<"[">>
    /\ NextLine
    /\ UNCHANGED <<in_features, feature_count, current_feature, brace_count, emitted,
                   decode_errors>>

\* Lines 104-109: what a record line leaves in the buffer and the counter
IsRecordLine ==
    /\ AtLine
    /\ ~FeaturesIn(Line)
    /\ in_features
    /\ Line # <<"[">>
    /\ ~StartsWith(Line, "]")
NewFeature ==
    IF StartsWith(Line, "{") THEN Line
    ELSE IF current_feature # <<>> THEN current_feature \o <<" ">> \o Line
    ELSE current_feature
NewBraceCount ==
    IF StartsWith(Line, "{") THEN BraceDiff(Line)
    ELSE IF current_feature # <<>> THEN brace_count + BraceDiff(Line)
    ELSE brace_count
Complete == NewFeature # <<>> /\ NewBraceCount = 0

\* Lines 104-112: the candidate is not complete after this line
AccumulateLine ==
    /\ IsRecordLine
    /\ ~Complete
    /\ current_feature' = NewFeature
    /\ brace_count' = NewBraceCount
    /\ NextLine
    /\ UNCHANGED <<in_features, feature_count, emitted, decode_errors>>

\* Lines 112-119 and 127-128: the candidate is complete and parses
YieldFeature ==
    /\ IsRecordLine
    /\ Complete
    /\ JsonLoadsOk(FeatureStr(NewFeature))
    /\ emitted' = Append(emitted, JsonLoads(FeatureStr(NewFeature)))
    /\ feature_count' = feature_count + 1
    /\ current_feature' = <<>>
    /\ brace_count' = 0
    /\ NextLine
    /\ UNCHANGED <<in_features, decode_errors>>

\* Lines 112-117 and 123-128: json.loads raises JSONDecodeError
SkipInvalid ==
    /\ IsRecordLine
    /\ Complete
    /\ ~JsonLoadsOk(FeatureStr(NewFeature))
    /\ decode_errors' = decode_errors + 1
    /\ current_feature' = <<>>
    /\ brace_count' = 0
    /\ NextLine
    /\ UNCHANGED <<in_features, feature_count, emitted>>

\* Line 130: all the generator tells at its end is the printed feature_count
EndReport == [n \in {"emitted"} |-> feature_count]
EndOfStream ==
    /\ parsePc' = "done"
    /\ reported' = EndReport
    /\ UNCHANGED <<doc, src_records, line_num, in_features, feature_count,
                   current_feature, brace_count, emitted, decode_errors>>
    /\ UNCHANGED <<canon, query, sampleDisk, app, disk, pc, runNo, streamLocals, combineLocals,
                   history, budget>>

\* Lines 100-101 and 130: a line that starts with ']' ends the loop
TerminatorLine ==
    /\ AtLine
    /\ ~FeaturesIn(Line)
    /\ in_features
    /\ Line # <<"[">>
    /\ StartsWith(Line, "]")
    /\ EndOfStream

\* Lines 84 and 130: the file has no more lines
EndOfFile ==
    /\ parsePc = "lines"
    /\ line_num = Len(doc)
    /\ EndOfStream

\* the files of up to MaxRecords records
RecordSeqs(n) == {[i \in 1..n |-> RecordText(kinds[i], i)] : kinds \in [1..n -> RecordKinds]}
InputRecords == UNION {RecordSeqs(n) : n \in 0..MaxRecords}
\* the "joined" layout is one of records written as objects, the layouts
\* other than one record per line are those of a document of valid records
Braced(rec) == rec[1] = "{" /\ rec[Len(rec)] = "}"
AllValid(recs) == \A i \in 1..Len(recs) : JsonLoadsOk(recs[i])
InputFiles ==
    {in \in InputRecords \X Layouts :
        /\ in[2] = "joined" => \A i \in 1..Len(in[1]) : Braced(in[1][i])
        /\ in[2] \notin {"lines", "joined", "truncated"} => AllValid(in[1])}

NextParser ==
    \/ /\ parsePc = "off"
       /\ \E in \in InputFiles : OpenFile(in[1], in[2])
    \/ FeaturesKeyLine
    \/ BeforeFeaturesLine
    \/ OpenBracketLine
    \/ AccumulateLine
    \/ YieldFeature
    \/ SkipInvalid
    \/ TerminatorLine
    \/ EndOfFile

SpecParser == Init /\ [][NextParser]_vars

(***************************************************************************)
(* Queries: retrieve_documents (app.py:124-156) and retrieve               *)
(* (RAG_CHATBOT.py:25-36, app-backup.py:39-46).                            *)
(*                                                                         *)
(* A Document is stood for by its content; its identity is its position    *)
(* in the metadata list.  The index is an exact L2 index (IndexFlatL2)     *)
(* over the vectors the ingest stored.                                     *)
(***************************************************************************)
MaxIndexed == 3
MaxContent == 2
QueryContents == 0..MaxContent

\* the k of the callers and of a caller that wants one result
DefaultK == 5
BackupK == 3
Ks == {1, BackupK, DefaultK}

\* genai.embed_content with models/text-embedding-004: another model, another
\* dimension than SentenceTransformer.encode (Embed)
EmbedGemini(text) == <<text % 2, text \div 2, 1>>
Providers == {"minilm", "gemini"}
EmbedWith(p, text) == IF p = "minilm" THEN Embed(text) ELSE EmbedGemini(text)

\* squared Euclidean distance, the metric of IndexFlatL2
RECURSIVE SqDist(_, _)
SqDist(u, v) ==
    IF u = <<>> THEN 0
    ELSE (Head(u) - Head(v)) * (Head(u) - Head(v)) + SqDist(Tail(u), Tail(v))

\* (the reverse of Closer: farthest first)
Farther(vectors, qvec, a, b) ==
    \/ SqDist(vectors[a + 1], qvec) > SqDist(vectors[b + 1], qvec)
    \/ SqDist(vectors[a + 1], qvec) = SqDist(vectors[b + 1], qvec) /\ a < b

\* index.search: the k nearest stored positions (from 0), nearest first, equal
\* distances by position; where the index has fewer than k vectors the result
\* is filled with position -1 at the largest distance.
Hit(p, d) == [pos |-> p, dist |-> d]
Closer(vectors, qvec, a, b) ==
    \/ SqDist(vectors[a + 1], qvec) < SqDist(vectors[b + 1], qvec)
    \/ SqDist(vectors[a + 1], qvec) = SqDist(vectors[b + 1], qvec) /\ a < b
RECURSIVE NearestFirst(_, _, _)
NearestFirst(vectors, qvec, S) ==
    IF S = {} THEN <<>>
    ELSE LET m == CHOOSE a \in S : \A b \in S \ {a} : Closer(vectors, qvec, a, b)
         IN  <<Hit(m, SqDist(vectors[m + 1], qvec))>> \o NearestFirst(vectors, qvec, S \ {m})
FarDistance == 3 * (MaxContent + 1) * (MaxContent + 1)
Search(vectors, qvec, k) ==
    LET all == NearestFirst(vectors, qvec, 0..(Len(vectors) - 1))
    IN  [i \in 1..k |-> IF i <= Len(all) THEN all[i] ELSE Hit(-1, FarDistance)]

\* texts[idx] of a Python list: a negative idx counts from the end, and an idx
\* outside -len..len-1 raises IndexError
PyIndexable(texts, idx) == idx < Len(texts) /\ idx >= -Len(texts)
PyIndex(texts, idx) == IF idx >= 0 THEN texts[idx + 1] ELSE texts[Len(texts) + idx + 1]

\* the metadata list of n entries that goes with an index built from docs
Metadata(docs, n) == [i \in 1..n |-> IF i <= Len(docs) THEN docs[i] ELSE 0]
IndexedDocs == UNION {[1..n -> QueryContents] : n \in 0..MaxIndexed}
MetadataLens(docs) == {n \in {Len(docs) - 1, Len(docs), Len(docs) + 1} : n >= 0}

\* app.py:50-81, RAG_CHATBOT.py:14-20: the index and the metadata are read
LoadIndex(docs, p, n) ==
    /\ queryPc = "off"
    /\ queryPc' = "loaded"
    /\ q_vectors' = [i \in 1..Len(docs) |-> EmbedWith(p, docs[i])]
    /\ q_dim' = Len(EmbedWith(p, 0))
    /\ q_texts' = Metadata(docs, n)
    /\ UNCHANGED <<q_query, q_k, q_provider, q_hits, q_result>>
    /\ UNCHANGED <<canon, parser, sampleDisk, app, disk, pc, runNo, streamLocals, combineLocals,
                   history, budget>>

\* app.py:82-86: RAG_AVAILABLE = False
LoadFails ==
    /\ queryPc = "off"
    /\ queryPc' = "unavailable"
    /\ UNCHANGED <<q_vectors, q_dim, q_texts, q_query, q_k, q_provider, q_hits, q_result>>
    /\ UNCHANGED <<canon, parser, sampleDisk, app, disk, pc, runNo, streamLocals, combineLocals,
                   history, budget>>

Answer(p, text, k, hits, result) ==
    /\ queryPc' = "answered"
    /\ q_provider' = p
    /\ q_query' = text
    /\ q_k' = k
    /\ q_hits' = hits
    /\ q_result' = result
    /\ UNCHANGED <<q_vectors, q_dim, q_texts>>
    /\ UNCHANGED <<canon, parser, sampleDisk, app, disk, pc, runNo, streamLocals, combineLocals,
                   history, budget>>
Returned(docs) == [outcome |-> "list", docs |-> docs]
Raised(exception) == [outcome |-> exception, docs |-> <<>>]

\* app.py:126-127
RetrieveUnavailable(text, k) ==
    /\ queryPc = "unavailable"
    /\ Answer("minilm", text, k, <<>>, Returned(<<>>))

\* app.py:144-149: the hits whose position passes `idx < len(texts)`
Kept(hits, texts) == SelectSeq(hits, LAMBDA h : h.pos < Len(texts))
RelevantDocs(hits, texts) ==
    [i \in 1..Len(Kept(hits, texts)) |-> PyIndex(texts, Kept(hits, texts)[i].pos)]

\* app.py:129-152
RetrieveDocuments(text, k) ==
    /\ queryPc = "loaded"
    /\ Len(Embed(text)) = q_dim
    /\ LET hits == Search(q_vectors, Embed(text), k)
       IN  /\ \A i \in 1..Len(Kept(hits, q_texts)) : PyIndexable(q_texts, Kept(hits, q_texts)[i].pos)
           /\ Answer("minilm", text, k, hits, Returned(RelevantDocs(hits, q_texts)))

\* app.py:154-156: index.search asserts the dimension, texts[-1] of an empty
\* list raises IndexError; either way the function returns []
RetrieveDocumentsRaises(text, k) ==
    /\ queryPc = "loaded"
    /\ \/ /\ Len(Embed(text)) # q_dim
          /\ Answer("minilm", text, k, <<>>, Returned(<<>>))
       \/ /\ Len(Embed(text)) = q_dim
          /\ LET hits == Search(q_vectors, Embed(text), k)
             IN  /\ \E i \in 1..Len(Kept(hits, q_texts)) :
                        ~PyIndexable(q_texts, Kept(hits, q_texts)[i].pos)
                 /\ Answer("minilm", text, k, hits, Returned(<<>>))

\* RAG_CHATBOT.py:25-36, app-backup.py:39-46
Retrieve(text, k) ==
    /\ queryPc = "loaded"
    /\ Len(EmbedGemini(text)) = q_dim
    /\ LET hits == Search(q_vectors, EmbedGemini(text), k)
       IN  /\ \A i \in 1..k : PyIndexable(q_texts, hits[i].pos)
           /\ Answer("gemini", text, k, hits, Returned([i \in 1..k |-> PyIndex(q_texts, hits[i].pos)]))

\* RAG_CHATBOT.py:34-35: nothing catches what index.search or texts[i] raises
RetrieveRaises(text, k) ==
    /\ queryPc = "loaded"
    /\ \/ /\ Len(EmbedGemini(text)) # q_dim
          /\ Answer("gemini", text, k, <<>>, Raised("AssertionError"))
       \/ /\ Len(EmbedGemini(text)) = q_dim
          /\ LET hits == Search(q_vectors, EmbedGemini(text), k)
             IN  /\ \E i \in 1..k : ~PyIndexable(q_texts, hits[i].pos)
                 /\ Answer("gemini", text, k, hits, Raised("IndexError"))

NextQuery ==
    \/ /\ queryPc = "off"
       /\ \E docs \in IndexedDocs, p \in Providers :
              \E n \in MetadataLens(docs) : LoadIndex(docs, p, n)
    \/ LoadFails
    \/ \E text \in QueryContents, k \in Ks : RetrieveUnavailable(text, k)
    \/ \E text \in QueryContents, k \in Ks : RetrieveDocuments(text, k)
    \/ \E text \in QueryContents, k \in Ks : RetrieveDocumentsRaises(text, k)
    \/ \E text \in QueryContents, k \in Ks : Retrieve(text, k)
    \/ \E text \in QueryContents, k \in Ks : RetrieveRaises(text, k)

SpecQuery == Init /\ [][NextQuery]_vars

(***************************************************************************)
(* feature_to_rag_content: free_streaming_processor.py:24-71,              *)
(* free_embedding_processor.py:37-93 and create_real_sample.py:99-155.     *)
(*                                                                         *)
(* A property value is a string or a number: [kind, s, n].  A text is a    *)
(* sequence of pieces, the constant parts of the f-strings and the         *)
(* formatted values.  Lengths are whole metres, coordinates whole          *)
(* thousandths of a degree; a kilometre value is kept in metres.           *)
(***************************************************************************)
Str(s) == [kind |-> "str", s |-> s, n |-> 0]
Num(n) == [kind |-> "num", s |-> "", n |-> n]
Sentinel == -999999

\* dict.get(key, default)
Get(d, key, default) == IF key \in DOMAIN d THEN d[key] ELSE default

\* str(value) inside an f-string
Format(v) == IF v.kind = "str" THEN v.s ELSE ToString(v.n)

\* f"{x:.1f}" of x = metres / 1000: tenths of a kilometre, to the nearest;
\* a value half way (x.x5, exact in binary for the lengths used here) goes to
\* the even tenth
Tenths(metres) ==
    LET q == metres \div 100
        r == metres % 100
    IN  IF r < 50 THEN q
        ELSE IF r > 50 THEN q + 1
        ELSE IF q % 2 = 0 THEN q ELSE q + 1
FormatTenths(t) == <<ToString(t \div 10), ".", ToString(t % 10)>>

\* f"{x:.3f}" of a coordinate given in thousandths
Abs(n) == IF n < 0 THEN -n ELSE n
FormatThousandths(m) ==
    <<IF m < 0 THEN "-" ELSE "", ToString(Abs(m) \div 1000), ".",
      ToString((Abs(m) \div 100) % 10), ToString((Abs(m) \div 10) % 10),
      ToString(Abs(m) % 10)>>

\* isinstance(length, (int, float)) and length > 0
PositiveNumber(v) == v.kind = "num" /\ v.n > 0

\* the fields read from props, with their defaults
LineId(props) ==
    Get(props, "ID", Str("OBJ_" \o Format(Get(props, "OBJECTID", Str("Unknown")))))
LineType(props) == Get(props, "TYPE", Str("Transmission Line"))
Status(props) == Get(props, "STATUS", Str("Unknown"))
Voltage(props) == Get(props, "VOLTAGE", Str("Unknown"))
VoltClass(props) == Get(props, "VOLT_CLASS", Str("Unknown"))
Owner(props) == Get(props, "OWNER", Str("Not Available"))
Sub1(props) == Get(props, "SUB_1", Str("Unknown"))
Sub2(props) == Get(props, "SUB_2", Str("Unknown"))
Length(props) == Get(props, "SHAPE__Len", Str("Unknown"))

\* the sentences appended one by one
IdPart(props) ==
    <<"Transmission Line ", Format(LineId(props)), " is a ", Format(LineType(props)),
      " electrical power line.">>
StatusPart(props) == <<"The line status is ", Format(Status(props)), ".">>
VoltagePart(props) ==
    IF Voltage(props) # Str("Unknown") /\ Voltage(props) # Num(Sentinel)
    THEN <<"It operates at ", Format(Voltage(props)), " volts in the ",
           Format(VoltClass(props)), " voltage class.">>
    ELSE <<"It operates in the ", Format(VoltClass(props)), " voltage class.">>
OwnerPart(props) ==
    IF Owner(props) \notin {Str("NOT AVAILABLE"), Str("Unknown")}
    THEN <<<<"The line is owned by ", Format(Owner(props)), ".">>>>
    ELSE <<>>
SubstationsPart(props) ==
    IF Sub1(props) # Str("Unknown") /\ Sub2(props) # Str("Unknown")
    THEN <<<<"It connects ", Format(Sub1(props)), " substation to ", Format(Sub2(props)),
             " substation.">>>>
    ELSE <<>>
LengthPart(props) ==
    IF PositiveNumber(Length(props))
    THEN <<<<"The transmission line is approximately ">>
           \o FormatTenths(Tenths(Length(props).n)) \o <<" kilometers long.">>>>
    ELSE <<>>
ClosingPart == <<"This is electrical grid infrastructure for power transmission and control.">>
PropertyParts(props) ==
    <<IdPart(props), StatusPart(props), VoltagePart(props)>>
    \o OwnerPart(props) \o SubstationsPart(props) \o LengthPart(props) \o <<ClosingPart>>

\* ' '.join(content_parts)
RECURSIVE Join(_)
Join(parts) ==
    IF parts = <<>> THEN <<>>
    ELSE IF Len(parts) = 1 THEN parts[1]
    ELSE parts[1] \o <<" ">> \o Join(Tail(parts))

\* the returned dict; length_km is None or metres / 1000, kept in metres
Document(props, content) ==
    [id |-> LineId(props),
     content |-> content,
     voltage |-> Voltage(props),
     voltage_class |-> VoltClass(props),
     owner |-> Owner(props),
     status |-> Status(props),
     substations |-> <<Sub1(props), Sub2(props)>>,
     length_km |-> IF PositiveNumber(Length(props))
                   THEN [none |-> FALSE, metres |-> Length(props).n]
                   ELSE [none |-> TRUE, metres |-> 0],
     line_type |-> LineType(props)]
Returns(d) == [state |-> "returned", doc |-> d]
Raises(exception) == [state |-> exception, doc |-> <<>>]

\* A geometry is absent, or has coordinates nested `depth` deep: 1 a point
\* (one position), 2 a single path (a list of positions), 3 a multi-path (a
\* list of paths).  A position is <<lon, lat>>.
NoGeometry == [depth |-> 0, coordinates |-> <<>>]
Geometry(depth, coordinates) == [depth |-> depth, coordinates |-> coordinates]

\* free_embedding_processor.py:74-79: geometry['coordinates'][0][0] and
\* len(coords); on a single path coords is a number and len raises, on a point
\* the second [0] raises
LocationPart(geometry) ==
    IF geometry.coordinates = <<>> THEN [state |-> "returned", parts |-> <<>>]
    ELSE IF geometry.depth < 3 THEN [state |-> "TypeError", parts |-> <<>>]
    ELSE LET coords == geometry.coordinates[1][1]
         IN  IF Len(coords) >= 2
             THEN [state |-> "returned",
                   parts |-> <<<<"The line is located at approximately ">>
                               \o FormatThousandths(coords[2]) \o <<"°N, ">>
                               \o FormatThousandths(Abs(coords[1])) \o <<"°W.">>>>]
             ELSE [state |-> "returned", parts |-> <<>>]

\* free_streaming_processor.py:24-71
StreamingFeatureToRagContent(feature) ==
    Returns(Document(feature.properties, Join(PropertyParts(feature.properties))))

\* free_embedding_processor.py:37-93
InMemoryFeatureToRagContent(feature) ==
    IF LocationPart(feature.geometry).state # "returned"
    THEN Raises(LocationPart(feature.geometry).state)
    ELSE Returns(Document(feature.properties,
                          Join(PropertyParts(feature.properties)
                               \o LocationPart(feature.geometry).parts)))

\* create_real_sample.py:99-155
SampleFeatureToRagContent(feature) == InMemoryFeatureToRagContent(feature)

\* The Records: every combination of the values below, a field being absent
\* when its value is "absent".
Absent == Str("absent")
OwnerValues == {Absent, Str("NOT AVAILABLE"), Str("Unknown"), Str("ACME POWER"), Num(Sentinel)}
VoltageValues == {Absent, Num(230), Num(Sentinel)}
StatusValues == {Absent, Str("IN SERVICE"), Num(Sentinel)}
Sub1Values == {Absent, Str("ALPHA"), Num(Sentinel)}
Sub2Values == {Absent, Str("BETA"), Num(Sentinel)}
LengthValues == {Absent, Num(Sentinel), Num(0), Num(1234), Num(1250)}
IdValues == {Absent, Str("L1")}
Position == <<-97500, 35250>>
Geometries ==
    {NoGeometry, Geometry(2, <<>>), Geometry(2, <<Position, Position>>),
     Geometry(3, <<<<Position, Position>>>>)}
FieldValues ==
    [ID : IdValues, STATUS : StatusValues, VOLTAGE : VoltageValues, OWNER : OwnerValues,
     SUB_1 : Sub1Values, SUB_2 : Sub2Values, SHAPE__Len : LengthValues]
Fields == {"ID", "STATUS", "VOLTAGE", "OWNER", "SUB_1", "SUB_2", "SHAPE__Len"}
Properties(values) ==
    [f \in {g \in Fields : values[g] # Absent} |-> values[f]]
Without(props, field) == [f \in DOMAIN props \ {field} |-> props[f]]

\* a Record is taken from the input
TakeRecord(values, geometry) ==
    /\ canonPc = "off"
    /\ canonPc' = "taken"
    /\ c_record' = [properties |-> Properties(values), geometry |-> geometry]
    /\ UNCHANGED <<c_stream, c_memory, c_sample>>
    /\ UNCHANGED <<parser, query, sampleDisk, app, disk, pc, runNo, streamLocals,
                   combineLocals, history, budget>>

\* free_streaming_processor.py:152 calls the function on the Record
ConvertStreaming ==
    /\ canonPc = "taken"
    /\ c_stream = <<>>
    /\ c_stream' = StreamingFeatureToRagContent(c_record)
    /\ UNCHANGED <<canonPc, c_record, c_memory, c_sample>>
    /\ UNCHANGED <<parser, query, sampleDisk, app, disk, pc, runNo, streamLocals,
                   combineLocals, history, budget>>

\* free_embedding_processor.py:123 calls it; nothing catches what it raises
ConvertInMemory ==
    /\ canonPc = "taken"
    /\ c_memory = <<>>
    /\ c_memory' = InMemoryFeatureToRagContent(c_record)
    /\ UNCHANGED <<canonPc, c_record, c_stream, c_sample>>
    /\ UNCHANGED <<parser, query, sampleDisk, app, disk, pc, runNo, streamLocals,
                   combineLocals, history, budget>>

\* create_real_sample.py:35 calls it; nothing catches what it raises
ConvertSample ==
    /\ canonPc = "taken"
    /\ c_sample = <<>>
    /\ c_sample' = SampleFeatureToRagContent(c_record)
    /\ UNCHANGED <<canonPc, c_record, c_stream, c_memory>>
    /\ UNCHANGED <<parser, query, sampleDisk, app, disk, pc, runNo, streamLocals,
                   combineLocals, history, budget>>

NextCanon ==
    \/ /\ canonPc = "off"
       /\ \E values \in FieldValues, geometry \in Geometries : TakeRecord(values, geometry)
    \/ ConvertStreaming
    \/ ConvertInMemory
    \/ ConvertSample

SpecCanon == Init /\ [][NextCanon]_vars


(***************************************************************************)
(* Properties.                                                             *)
(***************************************************************************)
CombinePcs == {"cb_load", "cb_rm_emb", "cb_rm_meta", "cb_write_index",
               "cb_index", "cb_open_meta", "cb_meta"}

\* two lists have a Document in common
Overlaps(b, c) == b.file = c.file /\ b.lo <= c.hi /\ c.lo <= b.hi
ListsOverlap(L, M) ==
    \E i \in 1..Len(L), j \in 1..Len(M) : Overlaps(L[i], M[j])

\* number of times Document d occurs in list L
RECURSIVE Occurrences(_, _)
Occurrences(L, d) ==
    IF L = <<>> THEN 0
    ELSE (IF Head(L).file = d.file /\ Head(L).lo <= d.rec /\ d.rec <= Head(L).hi
          THEN 1 ELSE 0) + Occurrences(Tail(L), d)

\* vector i of the index is the embedding of the content of Document i
Aligned(ix, md) ==
    /\ ListLen(ix.data) = ListLen(md.data)
    /\ \A i \in 1..ListLen(md.data) :
          VecAt(ix.data, i) = Embed(Content(DocAt(md.data, i)))

\* checkpoint n is on disk with both of its files complete
WholeCheckpoint(n) ==
    /\ n \in DOMAIN embFile /\ n \in DOMAIN metaFile
    /\ embFile[n].ok /\ metaFile[n].ok

\* C1: after every successful build by process_streaming or
\* process_geojson_file, the persisted index and the persisted metadata list
\* are both loadable and, at every position i, the vector at i is the embedding
\* of the content of the Document at i; the same holds of the pair the query
\* application has loaded from one build.
C1_IndexAlignedWithMetadata ==
    /\ (pc = "done" /\ mode \in {"stream", "memory"}) =>
          /\ indexFile.ok /\ finalMetaFile.ok
          /\ Aligned(indexFile, finalMetaFile)
    /\ (appPc = "ready" /\ app_index.build = app_texts.build) =>
          Aligned(app_index, app_texts)

\* C2: when process_streaming has returned and no embedding call of the run
\* failed, every Document of the input occurs exactly once in the final
\* metadata list.
C2_EveryDocumentExactlyOnce ==
    (pc = "done" /\ mode = "stream" /\ run_fails = 0) =>
        \A rec \in 1..InputLen(file) :
            Occurrences(finalMetaFile.data, Doc(file, rec)) = 1

\* C3: the ordinals under which one run of process_streaming writes its
\* batches are strictly increasing, so no batch overwrites an earlier one.
C3_OrdinalsStrictlyIncrease ==
    \A i \in 1..(Len(written) - 1) : written[i] < written[i + 1]

\* C4: after a successful build by any ingest path the persisted metadata list
\* has as many entries as the persisted index has vectors.
C4_MetadataCountEqualsVectorCount ==
    /\ (pc = "done" /\ mode \in {"stream", "memory"}) =>
          ListLen(finalMetaFile.data) = ListLen(indexFile.data)
    /\ (pc = "done" /\ mode = "sample") =>
          ListLen(sampleMetaFile.data) = ListLen(sampleIndexFile.data)

\* C5: while combine_batches runs, a checkpoint file of the merge is missing
\* from the disk only if the final index and the final metadata of this build
\* are both completely written.
C5_NoDeleteBeforeFinalPairWritten ==
    (pc \in CombinePcs /\
     \E i \in 1..ZipLen : \/ embedding_files[i] \notin DOMAIN embFile
                          \/ metadata_files[i] \notin DOMAIN metaFile) =>
        /\ indexFile.ok /\ indexFile.build = runNo
        /\ finalMetaFile.ok /\ finalMetaFile.build = runNo

\* C6: every pair that combine_batches has loaded is one fully written
\* checkpoint: the two files carry the same ordinal and the vectors are the
\* embeddings of exactly the Documents stored with them.
C6_CombineLoadsWholeCheckpointsOnly ==
    pc = "cb_rm_emb" =>
        /\ embedding_files[cb_i] = metadata_files[cb_i]
        /\ embFile[embedding_files[cb_i]].data
              = Encode(metaFile[metadata_files[cb_i]].data)

\* C7: the index file of one build and the metadata file of another build
\* never stand together, neither on disk nor as the pair loaded by a query
\* application that starts during a rebuild.
C7_PairReplacedAtomically ==
    /\ (indexFile.ok /\ finalMetaFile.ok) => indexFile.build = finalMetaFile.build
    /\ appPc = "ready" => app_index.build = app_texts.build

\* C8: process_streaming never gets from the provider the embeddings of
\* Documents that a complete checkpoint on disk already holds (a restarted run
\* skips the batches whose checkpoints exist).
C8_CheckpointedBatchesNotEmbeddedAgain ==
    (pc = "save" /\ mode = "stream") =>
        \A n \in DOMAIN embFile :
            WholeCheckpoint(n) => ~ListsOverlap(metaFile[n].data, all_texts)

\* C9: the provider attempts on a batch are bounded: once the batch has been
\* given up as failed, no later provider call is made on any of its Documents.
\* process_streaming has no retry loop and no configured ceiling; it gives a
\* batch up (line 172, "Skipped") each time the call raises, and failedBatches
\* records the batches given up.
C9_NoAttemptAfterBatchFailed ==
    [][(mode = "stream" /\ encode_calls' > encode_calls) =>
          \A fb \in failedBatches : ~ListsOverlap(fb, all_texts)]_vars

\* C10: a batch never holds more than batch_size Documents (the Documents of
\* a failed batch are not carried into the next one), and the Documents of a
\* failed batch are absent from the final metadata.
C10_FailedBatchDroppedNotCarried ==
    /\ mode = "stream" => ListLen(all_texts) <= batch_size
    /\ (pc = "done" /\ mode = "stream") =>
          \A fb \in failedBatches : ~ListsOverlap(fb, finalMetaFile.data)

\* the Documents of input file f, in the order of the input
InputOrder(f) == AppendBlock(<<>>, Block(f, 1, InputLen(f)))

\* C23: combine_batches puts the checkpoints together in the order of their
\* ordinal numbers, so the final metadata of a run with ten checkpoints or
\* more lists the Documents in the order of the input.
C23_MetadataInInputOrder ==
    (pc = "done" /\ mode = "stream") =>
        /\ finalMetaFile.ok
        /\ finalMetaFile.data = InputOrder(file)

\* What a run of process_streaming on file f with batch size bs leaves as
\* final metadata when it starts in an empty working directory and nothing
\* fails: batch j is written under the ordinal of the count reached, and the
\* checkpoints are put together in the order of the sorted names.
RECURSIVE CleanCheckpoints(_, _, _, _)
CleanCheckpoints(f, bs, j, dir) ==
    IF (j - 1) * bs >= InputLen(f) THEN dir
    ELSE LET count == Min(j * bs, InputLen(f))
         IN  CleanCheckpoints(f, bs, j + 1,
                 Put(dir, BatchNum(count),
                     AppendBlock(<<>>, Block(f, (j - 1) * bs + 1, count))))
RECURSIVE Combined(_, _)
Combined(dir, names) ==
    IF names = <<>> THEN <<>>
    ELSE Extend(dir[Head(names)], Combined(dir, Tail(names)))
CleanMetadata(f, bs) ==
    LET dir == CleanCheckpoints(f, bs, 1, <<>>)
    IN  Combined(dir, SortedNames(DOMAIN dir))

\* C28: the final metadata of a complete run of process_streaming in which no
\* provider call failed is that of the same run in an empty working
\* directory: checkpoints that an earlier, interrupted run has left add
\* nothing to it.
C28_LeftoverCheckpointsIgnored ==
    (pc = "done" /\ mode = "stream" /\ run_fails = 0) =>
        finalMetaFile.data = CleanMetadata(file, batch_size)


(***************************************************************************)
(* Properties of stream_geojson_features.                                  *)
(***************************************************************************)
\* the records of the file that are valid JSON, in file order
ValidRecords == SelectSeq(src_records, JsonLoadsOk)

\* C11: the stream emits exactly the valid records of the features array, in
\* file order; a malformed record is skipped and the next record is parsed.
C11_EmitsExactlyTheValidRecords ==
    parsePc = "done" => emitted = ValidRecords

\* C12: at the end of the stream the caller is told the number of records
\* emitted and the number skipped, the latter being the number of candidates
\* that failed to parse.
C12_EndReportsEmittedAndSkipped ==
    parsePc = "done" =>
        /\ DOMAIN reported = {"emitted", "skipped"}
        /\ reported["emitted"] = Len(emitted)
        /\ reported["skipped"] = decode_errors

\* C13: the candidate buffer never holds more than the text of one record
\* (with the comma that follows it).
RECURSIVE MaxRecordLen(_)
MaxRecordLen(recs) ==
    IF recs = <<>> THEN 0 ELSE Max(Len(Head(recs)), MaxRecordLen(Tail(recs)))
C13_BufferHoldsAtMostOneRecord ==
    Len(NoBlanks(current_feature)) <= MaxRecordLen(src_records) + 1

\* the line the features array ends at, 1 + the number of lines when the
\* file does not hold it
TerminatorAt(lines) ==
    IF Len(lines) >= 2 /\ SubSeq(lines, Len(lines) - 1, Len(lines)) = Footer
    THEN Len(lines) - 1
    ELSE Len(lines) + 1

\* C24: in a document of valid records the stream ends at the line that
\* closes the features array and at no line before it; a "]" that closes an
\* array inside a record does not end it.
C24_StopsAtTheFeaturesTerminatorOnly ==
    (parsePc = "done" /\ AllValid(src_records)) => line_num + 1 = TerminatorAt(doc)

\* C25: every emitted record is one whole element of the features array, and
\* the candidate buffer is at any time the beginning of one element: no
\* closing or opening of a nested object ends a record early or drops the
\* part of it read so far.
IsPrefix(text, rec) == Len(text) <= Len(rec) /\ SubSeq(rec, 1, Len(text)) = text
Elements == {JsonLoads(src_records[i]) : i \in 1..Len(src_records)}
C25_RecordsAreWholeElements ==
    AllValid(src_records) =>
        /\ \A i \in 1..Len(emitted) : emitted[i] \in Elements
        /\ \/ current_feature = <<>>
           \/ \E i \in 1..Len(src_records) :
                  IsPrefix(NoBlanks(current_feature), Append(src_records[i], ","))

\* C29: the records emitted for a document of valid records are its records,
\* in whatever layout the document is written and whatever text its string
\* values hold.
C29_EmittedRecordsIgnoreLayoutAndText ==
    (parsePc = "done" /\ AllValid(src_records)) => emitted = src_records

(***************************************************************************)
(* Properties of the queries.                                              *)
(***************************************************************************)
QueryVec == EmbedWith(q_provider, q_query)
\* the query was embedded in the dimension of the loaded index
Matched == Len(QueryVec) = q_dim
\* the index holds, position by position, the vectors of the metadata list
BuiltFromMetadata ==
    /\ Len(q_texts) = Len(q_vectors)
    /\ \A i \in 1..Len(q_texts) : q_vectors[i] = EmbedWith(q_provider, q_texts[i])
InBounds(pos) == pos >= 0 /\ pos < Len(q_texts)
DocsAt(hits) == [i \in 1..Len(hits) |-> q_texts[hits[i].pos + 1]]

\* C14: a query with k greater than the number of indexed vectors returns a
\* list of exactly that many results, each indexed Document once.
C14_KBeyondIndexReturnsEachDocumentOnce ==
    (queryPc = "answered" /\ Matched /\ BuiltFromMetadata /\ q_k > Len(q_vectors)) =>
        /\ q_result.outcome = "list"
        /\ Len(q_result.docs) = Len(q_vectors)
        /\ \A c \in QueryContents : Count(q_result.docs, c) = Count(q_texts, c)

\* C15: the result is the Documents at the positions the search returned that
\* lie within the metadata list, in the order returned; an entry whose
\* position is negative or at or beyond the length of the list is dropped.
C15_OutOfBoundsPositionsDropped ==
    (queryPc = "answered" /\ q_hits # <<>>) =>
        /\ q_result.outcome = "list"
        /\ q_result.docs = DocsAt(SelectSeq(q_hits, LAMBDA h : InBounds(h.pos)))

\* C16: the returned list is, entry by entry, the Documents at positions the
\* search returned, taken in the search's order (dropping changes no order),
\* and that order is by ascending distance, equal distances by ascending
\* position.
Ascending(hits) ==
    \A i, j \in 1..Len(hits) :
        i < j => \/ hits[i].dist < hits[j].dist
                 \/ hits[i].dist = hits[j].dist /\ hits[i].pos < hits[j].pos
Pick(hits, I) == SelectSeq([i \in 1..Len(hits) |-> [hit |-> hits[i], at |-> i]],
                          LAMBDA e : e.at \in I)
PickedHits(hits, I) == [i \in 1..Len(Pick(hits, I)) |-> Pick(hits, I)[i].hit]
C16_ResultOrderedByDistanceThenPosition ==
    (queryPc = "answered" /\ q_result.outcome = "list") =>
        \E I \in SUBSET (1..Len(q_hits)) :
            /\ \A i \in I : InBounds(q_hits[i].pos)
            /\ Ascending(PickedHits(q_hits, I))
            /\ q_result.docs = DocsAt(PickedHits(q_hits, I))

\* C17: a query whose vector has another dimension than the loaded index
\* does not end in a result list: its caller is told of the fault.
C17_DimensionMismatchReported ==
    (queryPc = "answered" /\ q_dim # 0 /\ ~Matched) => q_result.outcome # "list"

\* C18 as stated: querying with the content of an indexed Document returns
\* that very Document (its position) at rank 0, whichever of the positions
\* holding the content is meant.
C18_EveryHolderRanksFirst ==
    (queryPc = "answered" /\ Matched /\ BuiltFromMetadata) =>
        \A p \in 0..(Len(q_texts) - 1) :
            q_texts[p + 1] = q_query =>
                /\ q_result.outcome = "list"
                /\ q_hits[1].pos = p
                /\ q_result.docs[1] = q_query

\* C18 amended: querying with the content of an indexed Document returns at
\* rank 0 the first position that holds this content, at distance 0, which no
\* other hit undercuts; the entry returned first has the queried content.
FirstHolder(p) ==
    /\ q_texts[p + 1] = q_query
    /\ \A r \in 0..(p - 1) : q_texts[r + 1] # q_query
C18_FirstHolderRanksFirst ==
    (queryPc = "answered" /\ Matched /\ BuiltFromMetadata) =>
        \A p \in 0..(Len(q_texts) - 1) :
            FirstHolder(p) =>
                /\ q_result.outcome = "list"
                /\ q_hits[1] = Hit(p, 0)
                /\ \A i \in 1..Len(q_hits) : q_hits[i].dist >= 0
                /\ q_result.docs[1] = q_query
\* a query for a content that two positions hold has been answered
C18_DuplicateContentQueried ==
    /\ queryPc = "answered" /\ Matched /\ BuiltFromMetadata
    /\ q_result.outcome = "list"
    /\ \E p, r \in 0..(Len(q_texts) - 1) : p < r /\ FirstHolder(p) /\ q_texts[r + 1] = q_query

Has(content, piece) == \E i \in 1..Len(content) : content[i] = piece
HasOwnedBy(content) == Has(content, "The line is owned by ")
HasLength(content) == Has(content, "The transmission line is approximately ")
HasLocation(content) == Has(content, "The line is located at approximately ")
Converted(result) == result # <<>> /\ result.state = "returned"
MarkedUnavailable(props) ==
    "OWNER" \in DOMAIN props /\ props["OWNER"] \in {Str("NOT AVAILABLE"), Str("Unknown")}
OwnerUnavailable(props) == "OWNER" \notin DOMAIN props \/ MarkedUnavailable(props)

\* C21: the content has the "owned by" sentence exactly when the Record has
\* an OWNER that is not an unavailable marker; a Record with no OWNER and a
\* Record with OWNER "NOT AVAILABLE" have no such sentence.
C21_OwnedByOnlyForAKnownOwner ==
    \A result \in {c_stream, c_memory} :
        Converted(result) =>
            (HasOwnedBy(result.doc.content) <=> ~OwnerUnavailable(c_record.properties))

\* C22: a Record with the sentinel -999999 in VOLTAGE, OWNER, STATUS, SUB_1,
\* SUB_2 or SHAPE__Len has the content of the same Record without that field.
SentinelFields == {"VOLTAGE", "OWNER", "STATUS", "SUB_1", "SUB_2", "SHAPE__Len"}
WithoutField(feature, field) ==
    [feature EXCEPT !.properties = Without(feature.properties, field)]
C22_SentinelReadsAsAbsent ==
    \A field \in SentinelFields :
        (/\ c_record # <<>>
         /\ field \in DOMAIN c_record.properties
         /\ c_record.properties[field] = Num(Sentinel)) =>
            /\ Converted(c_stream) =>
                   c_stream.doc.content
                       = StreamingFeatureToRagContent(WithoutField(c_record, field)).doc.content
            /\ Converted(c_memory) =>
                   c_memory.doc.content
                       = InMemoryFeatureToRagContent(WithoutField(c_record, field)).doc.content

\* C26: with a positive SHAPE__Len the content has the length sentence with
\* the kilometres rounded to one decimal and length_km is that rounded value;
\* otherwise there is no length sentence and length_km is None.
RoundedMetres(metres) == Tenths(metres) * 100
LengthSentence(metres) ==
    <<"The transmission line is approximately ">> \o FormatTenths(Tenths(metres))
    \o <<" kilometers long.">>
RECURSIVE Contains(_, _)
Contains(content, part) ==
    /\ Len(content) >= Len(part)
    /\ \/ SubSeq(content, 1, Len(part)) = part
       \/ Contains(Tail(content), part)
C26_LengthRoundedInContentAndSidecar ==
    \A result \in {c_stream, c_memory} :
        Converted(result) =>
            LET length == Length(c_record.properties)
            IN  IF PositiveNumber(length)
                THEN /\ Contains(result.doc.content, LengthSentence(length.n))
                     /\ result.doc.length_km = [none |-> FALSE, metres |-> RoundedMetres(length.n)]
                ELSE /\ ~HasLength(result.doc.content)
                     /\ result.doc.length_km.none

\* C27: for a Record whose geometry has coordinates the streaming and the
\* in-memory content both have the location sentence of the first position of
\* the first path, the longitude without its sign, and are the same content.
LocationSentence(position) ==
    <<"The line is located at approximately ">> \o FormatThousandths(position[2])
    \o <<"°N, ">> \o FormatThousandths(Abs(position[1])) \o <<"°W.">>
MultiPath(geometry) == geometry.depth = 3 /\ geometry.coordinates # <<>>
C27_EveryPathHasTheLocationSentence ==
    (Converted(c_stream) /\ Converted(c_memory) /\ MultiPath(c_record.geometry)) =>
        /\ Contains(c_stream.doc.content, LocationSentence(c_record.geometry.coordinates[1][1]))
        /\ Contains(c_memory.doc.content, LocationSentence(c_record.geometry.coordinates[1][1]))
        /\ c_stream.doc.content = c_memory.doc.content

\* C30: for a Record whose geometry has coordinates, a single path or a
\* multi-path, feature_to_rag_content returns a Document and raises nothing.
C30_ReturnsForEveryGeometry ==
    (c_record # <<>> /\ c_record.geometry.coordinates # <<>>) =>
        /\ c_memory # <<>> => c_memory.state = "returned"
        /\ c_sample # <<>> => c_sample.state = "returned"

====
